---- MODULE Spec2Model ----
(***************************************************************************)
(* Model of the data-lake-server upload/search/download service            *)
(* (server_backend/app: main.py, db.py, utils.py).                         *)
(*                                                                         *)
(* Strings are sequences of one-character strings, so that sanitisation,   *)
(* splitext and key composition are computed as the code computes them.    *)
(***************************************************************************)
EXTENDS Integers, Sequences, FiniteSets, TLC

VARIABLES
    objects,   \* the MinIO bucket: object key -> id of the ingest that wrote it
    catalog,   \* file_index.files_metadata_catalog: a set of rows
    req,       \* the HTTP requests: request id -> handler state
    owner,     \* server process -> request whose handler holds its event loop (0: none)
    arg,       \* argument of the utility function under test (utils.py)
    ret        \* the function called and its result (NoRet before the call)

vars == <<objects, catalog, req, owner, arg, ret>>

----------------------------------------------------------------------------
(* Bounds of the model.                                                    *)

\* number of HTTP requests served
NumReq == 2
\* directory entries a folder upload's traversal may visit
MaxEntries == 2
\* longest file name given to the utility functions
MaxNameLen == 3

----------------------------------------------------------------------------
(* Characters and strings.                                                 *)

LowerCase == <<"a", "d", "p", "t", "u", "z">>
UpperCase == <<"A", "D", "P", "T", "U", "Z">>
Digits == <<"0", "1", "2", "3", "4", "5", "6", "7", "8", "9">>

Range(s) == {s[i] : i \in DOMAIN s}

\* str.isalnum() on one character
IsAlnum(c) == c \in Range(LowerCase) \cup Range(UpperCase) \cup Range(Digits)

\* str.upper() on one character
UpperChar(c) ==
    IF \E i \in DOMAIN LowerCase : LowerCase[i] = c
    THEN UpperCase[CHOOSE i \in DOMAIN LowerCase : LowerCase[i] = c]
    ELSE c

Upper(s) == [i \in DOMAIN s |-> UpperChar(s[i])]

\* str(n) for n >= 0
RECURSIVE IntToStr(_)
IntToStr(n) ==
    IF n < 10 THEN <<Digits[n + 1]>>
    ELSE IntToStr(n \div 10) \o <<Digits[(n % 10) + 1]>>

\* s.rfind(c), 1-based; 0 when c does not occur
RFind(s, c) ==
    IF \E i \in DOMAIN s : s[i] = c
    THEN CHOOSE i \in DOMAIN s : s[i] = c /\ \A j \in DOMAIN s : s[j] = c => j <= i
    ELSE 0

\* s.lstrip(c)
RECURSIVE LStrip(_, _)
LStrip(s, c) == IF s # <<>> /\ Head(s) = c THEN LStrip(Tail(s), c) ELSE s

\* s.rstrip(c)
RECURSIVE RStrip(_, _)
RStrip(s, c) ==
    IF s # <<>> /\ s[Len(s)] = c THEN RStrip(SubSeq(s, 1, Len(s) - 1), c) ELSE s

\* s.strip(c)
Strip(s, c) == RStrip(LStrip(s, c), c)

StartsWith(s, p) == Len(s) >= Len(p) /\ SubSeq(s, 1, Len(p)) = p

\* os.path.splitext (posixpath): <<root, ext>>
splitext(p) ==
    LET sepIndex == RFind(p, "/")
        dotIndex == RFind(p, ".")
    IN  IF dotIndex > sepIndex
           /\ \E k \in (sepIndex + 1)..(dotIndex - 1) : p[k] # "."
        THEN <<SubSeq(p, 1, dotIndex - 1), SubSeq(p, dotIndex, Len(p))>>
        ELSE <<p, <<>>>>

\* os.path.join(a, b) (posixpath)
path_join(a, b) ==
    IF StartsWith(b, <<"/">>) THEN b
    ELSE IF a = <<>> \/ a[Len(a)] = "/" THEN a \o b
    ELSE a \o <<"/">> \o b

\* all strings over the alphabet S of length at most n
RECURSIVE StringsUpTo(_, _)
StringsUpTo(S, n) ==
    IF n = 0 THEN {<<>>}
    ELSE LET shorter == StringsUpTo(S, n - 1)
         IN  shorter \cup {Append(s, c) : s \in shorter, c \in S}

----------------------------------------------------------------------------
(* utils.py                                                                *)

\* result of a call: a returned value, or an exception
Returned(v) == [raised |-> "", value |-> v]
Raised(e) == [raised |-> e, value |-> <<>>]
NoRet == [raised |-> "-", value |-> <<>>]
IsReturn(x) == x.raised = ""

\* the attributes of the class datetime.datetime that utils.py could call
DatetimeClassAttrs == {"now", "utcnow", "today", "fromtimestamp", "strptime"}

\* f"upload_{...strftime('%Y%m%d%H%M%S%f')}": the fallback base name
UploadStamp == <<"u", "p", "_", "2", "0">>

\* the character sanitize_filename and sanitize_project_id keep or replace
SaneChar(c) == IF IsAlnum(c) \/ c \in {"-", "_"} THEN c ELSE "_"

get_file_extension(filename) ==
    LET extension == splitext(filename)[2]
    IN  IF extension # <<>> THEN Upper(LStrip(extension, ".")) ELSE <<"U", "N", "K", "N", "O", "W", "N">>

sanitize_filename(filename) ==
    LET sp == splitext(filename)
        base_name == sp[1]
        extension_original == sp[2]
        sane_base_name == [i \in DOMAIN base_name |-> SaneChar(base_name[i])]
        kept == SelectSeq(LStrip(extension_original, "."),
                          LAMBDA c : IsAlnum(c) /\ StartsWith(extension_original, <<".">>))
        sanitized_extension ==
            IF extension_original # <<>> /\ kept # <<>> THEN <<".">> \o kept ELSE <<>>
    IN  IF sane_base_name = <<>>
        THEN IF "utc" \in DatetimeClassAttrs
             THEN Returned(UploadStamp \o sanitized_extension)
             ELSE Raised("AttributeError")
        ELSE Returned(sane_base_name \o sanitized_extension)

sanitize_project_id(project_id) ==
    IF project_id # <<>>
    THEN LET stripped == Strip(project_id, " ")
             sane_project_id ==
                 Strip([i \in DOMAIN stripped |-> SaneChar(stripped[i])], "_")
         IN  IF sane_project_id # <<>> THEN sane_project_id \o <<"/">> ELSE <<>>
    ELSE <<>>

\* pathlib.PurePath.suffix of a file name
path_suffix(name) ==
    LET i == RFind(name, ".")
    IN  IF 1 < i /\ i < Len(name) THEN SubSeq(name, i, Len(name)) ELSE <<>>

----------------------------------------------------------------------------
(* Inputs and records.                                                     *)

Reqs == 1..NumReq

\* original file names as the HTTP layer or the archive traversal delivers them:
\* non-empty, without path separator
Names == {<<"a">>, <<"a", ".", "t">>}

\* research_project_id values of a metadata document (absent: the empty string)
ProjectIds == {<<>>, <<" ", "p">>}

\* what yaml.safe_load makes of the metadata file
MetaDocs ==
    {[kind |-> "mapping", research_project_id |-> p] : p \in ProjectIds}
    \cup {[kind |-> k, research_project_id |-> <<>>] : k \in {"scalar", "undecodable"}}

\* file names of the uploaded archive
ZipNames == {<<"z", ".", "z", "i", "p">>}

\* what Path(temp_dir).rglob("*") yields: extracted files and directories, and
\* the saved archive itself
Entries(zipname) ==
    {[name |-> n, is_file |-> TRUE] : n \in Names \cup {zipname}}
    \cup {[name |-> <<"d">>, is_file |-> FALSE]}

\* id of the n-th ingest of request r: stands for its uuid4 and its payload
IngestId(r, n) == <<r, n>>
\* objects and rows that were there before the server started
External == <<0, 0>>
NoBody == <<0, -1>>

MINIO_DEFAULT_BUCKET == "raw-data"

KeyA == <<"a">>

\* a catalog row that was there before the server started
PreRow ==
    [file_id |-> <<0, 1>>, project_id |-> <<>>, file_name |-> KeyA,
     file_type |-> <<"U", "N", "K", "N", "O", "W", "N">>, size_bytes |-> 10,
     date_conducted |-> "", minio_bucket_name |-> MINIO_DEFAULT_BUCKET,
     minio_object_path |-> KeyA, upload_timestamp |-> 0]

\* a query parameter the client left out (None)
NoFileId == <<0, -2>>

\* the filters of a GET /search; author, experiment_type, tags_contain and the
\* two dates are left out by every query: they filter on columns the rows of
\* this model do not carry
NoQuery == [file_id |-> NoFileId, research_project_id |-> <<>>, file_type |-> <<>>]
SearchQueries ==
    {NoQuery,
     [NoQuery EXCEPT !.research_project_id = <<"p">>],
     [NoQuery EXCEPT !.file_id = <<0, 1>>, !.file_type = <<"u">>]}

\* file ids a download may ask for: one in the catalog, one unknown
DownloadIds == {<<0, 1>>, <<0, 2>>}

IdleReq ==
    [kind |-> "none", pc |-> "idle", proc |-> 0,
     meta |-> [kind |-> "", research_project_id |-> <<>>],
     zipname |-> <<>>, zipvalid |-> TRUE, folder |-> <<>>,
     name |-> <<>>, counter |-> 0, final |-> <<>>,
     n |-> 0, seen |-> 0, eligible |-> 0, results |-> <<>>, wrote |-> <<>>,
     tmp |-> FALSE, resp |-> 0, s3err |-> FALSE, raised |-> "", touched |-> FALSE,
     fid |-> External, body |-> NoBody, query |-> NoQuery, hits |-> <<>>]

\* a handler that removes the temporary directory at the end of its try block
TempDirAfterSuccessOnly(tmp, status) == tmp /\ status # 200

\* main.py lines 274-276, the finally clause of the folder endpoint:
\* shutil.rmtree(temp_dir) runs whatever the response; whether the directory
\* still exists afterwards
TempDirAfter(tmp, status) == FALSE

\* the record of a request whose handler has answered with `status`: the locals
\* of the handler are gone, the temporary directory is removed (the folder
\* endpoint's finally clause); what the request did stays on record
Ended(rec, status) ==
    [IdleReq EXCEPT !.kind = rec.kind, !.pc = "done", !.proc = rec.proc,
                    !.meta = [kind |-> rec.meta.kind, research_project_id |-> <<>>],
                    !.zipvalid = rec.zipvalid, !.n = rec.n, !.eligible = rec.eligible,
                    !.results = rec.results, !.wrote = rec.wrote, !.resp = status,
                    !.s3err = rec.s3err, !.raised = rec.raised,
                    !.touched = rec.touched, !.fid = rec.fid, !.body = rec.body,
                    !.query = rec.query, !.hits = rec.hits,
                    !.tmp = TempDirAfter(rec.tmp, status)]

\* the empty bucket
NoObjects == [k \in {} |-> External]

----------------------------------------------------------------------------
(* main.py: process_and_store_file, the ingestion pipeline.                *)

\* project prefix joined with the folder prefix of a folder upload
FullPrefix(rec) ==
    path_join(sanitize_project_id(rec.meta.research_project_id), rec.folder)

\* f"{base_name_for_counter}({counter}){extension_for_counter}"
CounterName(base, counter, ext) ==
    base \o <<"(">> \o IntToStr(counter) \o <<")">> \o ext

\* a counter that skips a value
IncrementCounterByTwo(counter) == counter + 2

\* counter += 1
IncrementCounter(counter) == counter + 1

\* minio_client.stat_object: the object's presence, or the S3 error code;
\* fault: the store answered with an error other than NoSuchKey
StatObject(store, key, fault) ==
    IF fault THEN "Other"
    ELSE IF key \in DOMAIN store THEN "found"
    ELSE "NoSuchKey"

\* a probe without loop: whatever the store answers on the first candidate
\* that is no error, the key is taken
ProbeVerdictFirstCandidate(code) == IF code = "Other" THEN "raise" ELSE "break"

\* a loop that takes every S3 error for "the key is free"
ProbeVerdictAnyError(code) == IF code = "found" THEN "again" ELSE "break"

\* what the loop does with the probe's answer: go on, leave the loop, or raise
ProbeVerdict(code) ==
    IF code = "found" THEN "again"
    ELSE IF code = "NoSuchKey" THEN "break"
    ELSE "raise"

\* a put that leaves an object that is already there
PutObjectIfAbsent(store, key, who) ==
    IF key \in DOMAIN store THEN store ELSE (key :> who) @@ store

\* a put that stores nothing
PutObjectLost(store, key, who) == store

\* minio_client.put_object
PutObject(store, key, who) == (key :> who) @@ store

\* the exception handler of the two upload endpoints: the response is a 500;
\* the folder endpoint's finally clause removes the temporary directory
UploadFailed(rec, where) == Ended([rec EXCEPT !.raised = where], 500)

\* the handler of request r ends: its process's event loop is free again
Release(rec) == [owner EXCEPT ![rec.proc] = 0]

\* the handler of request r can take its next step: the event loop of its
\* process is not running another handler
Holds(r) == req[r].proc \in DOMAIN owner /\ owner[req[r].proc] \in {0, r}

\* lines 62-82: the record of a request that starts ingesting the file `name`
BeginIngest(rec, name) ==
    LET preferred == sanitize_filename(name)
        started == [rec EXCEPT !.name = name, !.n = rec.n + 1, !.counter = 0,
                               !.final = <<>>, !.wrote = <<>>]
    IN  IF IsReturn(preferred)
        THEN [started EXCEPT !.pc = "probe",
                             !.final = path_join(FullPrefix(rec), preferred.value)]
        ELSE UploadFailed(started, "sanitize")

\* lines 83-97: one turn of the key-resolution loop
Probe(r) ==
    /\ req[r].pc = "probe"
    /\ Holds(r)
    /\ \E fault \in BOOLEAN :
        LET rec == [req[r] EXCEPT !.touched = TRUE, !.s3err = @ \/ fault]
            verdict == ProbeVerdict(StatObject(objects, rec.final, fault))
            sp == splitext(sanitize_filename(rec.name).value)
            counter == IncrementCounter(rec.counter)
        IN  IF verdict = "again"
            THEN /\ req' = [req EXCEPT ![r] =
                        [rec EXCEPT !.counter = counter,
                                    !.final = path_join(FullPrefix(rec),
                                                  CounterName(sp[1], counter, sp[2]))]]
                 /\ UNCHANGED owner
            ELSE IF verdict = "break"
            THEN /\ req' = [req EXCEPT ![r] = [rec EXCEPT !.pc = "put"]]
                 /\ UNCHANGED owner
            ELSE /\ req' = [req EXCEPT ![r] = UploadFailed(rec, "stat")]
                 /\ owner' = Release(rec)
    /\ UNCHANGED <<objects, catalog, arg, ret>>

\* lines 99-107: the object put; accepted: whether the store takes the write
Put(r) ==
    /\ req[r].pc = "put"
    /\ Holds(r)
    /\ \E accepted \in BOOLEAN :
        LET rec == [req[r] EXCEPT !.touched = TRUE]
        IN  IF accepted
            THEN /\ objects' = PutObject(objects, rec.final, IngestId(r, rec.n))
                 /\ req' = [req EXCEPT ![r] = [rec EXCEPT !.pc = "store",
                                                           !.wrote = rec.final]]
                 /\ UNCHANGED owner
            ELSE /\ req' = [req EXCEPT ![r] = UploadFailed(rec, "put")]
                 /\ owner' = Release(rec)
                 /\ UNCHANGED objects
    /\ UNCHANGED <<catalog, arg, ret>>

----------------------------------------------------------------------------
(* db.py: store_file_metadata_in_db, and its call in main.py.              *)

\* the keyword arguments of the call, main.py lines 124-138
StoreCallKeywords ==
    {"file_id", "original_file_name", "minio_bucket_name", "minio_object_path",
     "file_type_extension", "content_type", "upload_timestamp", "experiment_type",
     "date_conducted", "author", "research_project_id", "custom_tags", "size_bytes"}

\* the parameters of the function, db.py lines 51-65, and those without default
StoreParameters ==
    {"file_id", "original_file_name", "file_type_extension", "content_type",
     "size_bytes", "minio_bucket_name", "minio_object_path", "upload_timestamp",
     "project_id", "experiment_type", "author", "date_conducted", "custom_tags"}
StoreRequired ==
    {"file_id", "original_file_name", "file_type_extension", "content_type",
     "size_bytes", "minio_bucket_name", "minio_object_path", "upload_timestamp"}

\* Python binds a call's keyword arguments to the parameters, or raises TypeError
CallBinds(keywords, parameters, required) ==
    keywords \subseteq parameters /\ required \subseteq keywords

\* date_conducted strings of a metadata document; lines 110-119: strptime with
\* "%Y-%m-%d", None (here "") when absent or unparseable
DateStrs == {"", "2024-01-05", "not-a-date"}
ParseDate(date_conducted_str) ==
    IF date_conducted_str = "2024-01-05" THEN date_conducted_str ELSE ""

\* payload sizes
Sizes == {0, 10}

\* what the database does with the INSERT
DbAnswers == {"ok", "connection", "operation"}

\* db.py lines 108-172: the outcome the function returns
StoreOutcome(db) ==
    IF db = "ok" THEN [status |-> "success", message |-> "Metadata stored successfully."]
    ELSE IF db = "connection"
    THEN [status |-> "error", message |-> "Database Connection Error"]
    ELSE [status |-> "error", message |-> "Database operational error"]

\* main.py line 123, datetime.now(timezone.utc): later than the upload time of
\* every row written before
IngestionTime(rows) == Cardinality(rows)

\* db.py lines 92-127: the catalog after the function ran
StoreCatalog(rows, row, db) == IF db = "ok" THEN rows \cup {row} ELSE rows

\* lines 109-146: file type, date, file id, the catalog call and the outcome
Store(r) ==
    /\ req[r].pc = "store"
    /\ Holds(r)
    /\ IF CallBinds(StoreCallKeywords, StoreParameters, StoreRequired)
       THEN \E date \in DateStrs, size \in Sizes, db \in DbAnswers :
            LET rec == req[r]
                row == [file_id |-> IngestId(r, rec.n),
                        project_id |-> rec.meta.research_project_id,
                        file_name |-> rec.name,
                        file_type |-> get_file_extension(rec.name),
                        size_bytes |-> size,
                        date_conducted |-> ParseDate(date),
                        minio_bucket_name |-> MINIO_DEFAULT_BUCKET,
                        minio_object_path |-> rec.final,
                        upload_timestamp |-> IngestionTime(catalog)]
                result == [status |-> StoreOutcome(db).status,
                           original_filename |-> rec.name,
                           final_object_name |-> rec.final,
                           file_id |-> IngestId(r, rec.n),
                           message |-> StoreOutcome(db).message]
                returned == [rec EXCEPT !.results = Append(@, result)]
            IN  /\ catalog' = StoreCatalog(catalog, row, db)
                /\ IF rec.kind = "file"
                   THEN /\ req' = [req EXCEPT ![r] =
                               Ended(returned,
                                     IF result.status = "success" THEN 200 ELSE 500)]
                        /\ owner' = Release(rec)
                   ELSE /\ req' = [req EXCEPT ![r] = [returned EXCEPT !.pc = "iter"]]
                        /\ UNCHANGED owner
       ELSE /\ req' = [req EXCEPT ![r] = UploadFailed(req[r], "TypeError")]
            /\ owner' = Release(req[r])
            /\ UNCHANGED catalog
    /\ UNCHANGED <<objects, arg, ret>>

----------------------------------------------------------------------------
(* main.py: the upload endpoints.                                          *)

\* a handler without the isinstance check
MetadataAcceptedUnchecked(doc) == doc.kind # "undecodable"

\* lines 167-169 and 213-215: the document must decode into a dict
MetadataAccepted(doc) == doc.kind = "mapping"

\* lines 165-175 and 211-221: the request after its metadata file was read
MetadataRead(kind, doc, p) ==
    LET rec == [IdleReq EXCEPT !.kind = kind, !.meta = doc, !.proc = p]
    IN  IF MetadataAccepted(doc)
        THEN [rec EXCEPT !.pc = "parsed"]
        ELSE Ended(rec, 400)

\* POST /uploadfile/, lines 157-175
UploadFileMeta(r) ==
    /\ req[r].pc = "idle"
    /\ \E doc \in MetaDocs, p \in DOMAIN owner :
        /\ owner[p] = 0
        /\ req' = [req EXCEPT ![r] = MetadataRead("file", doc, p)]
    /\ UNCHANGED <<objects, catalog, owner, arg, ret>>

\* POST /upload_folder/, lines 201-221
UploadFolderMeta(r) ==
    /\ req[r].pc = "idle"
    /\ \E doc \in MetaDocs, p \in DOMAIN owner :
        /\ owner[p] = 0
        /\ req' = [req EXCEPT ![r] = MetadataRead("folder", doc, p)]
    /\ UNCHANGED <<objects, catalog, owner, arg, ret>>

\* a handler that is suspended at its awaits: the event loop is free for other
\* handlers while the ingest waits for the store
ContinueSuspended(r, rec) ==
    /\ req' = [req EXCEPT ![r] = rec]
    /\ owner' = Release(rec)

\* the request goes on with an ingest, or has ended with its exception handler;
\* the awaits of the handler (main.py lines 177, 250) are on a coroutine that
\* only makes blocking calls, so the handler keeps the event loop until it ends
Continue(r, rec) ==
    /\ req' = [req EXCEPT ![r] = rec]
    /\ owner' = IF rec.pc = "done" THEN Release(rec) ELSE [owner EXCEPT ![rec.proc] = r]

\* POST /uploadfile/, lines 177-184: the call of process_and_store_file
UploadFileIngest(r) ==
    /\ req[r].pc = "parsed"
    /\ req[r].kind = "file"
    /\ owner[req[r].proc] = 0
    /\ \E name \in Names : Continue(r, BeginIngest(req[r], name))
    /\ UNCHANGED <<objects, catalog, arg, ret>>

\* uuid.uuid4().hex[:8] of request r
UuidHex(r) == <<"u">> \o IntToStr(r)

\* lines 244-248: the files of the temporary directory that are ingested
Eligible(e) ==
    /\ e.is_file
    /\ ~StartsWith(e.name, <<"_", "_", "M", "A", "C", "O", "S", "X">>)
    /\ path_suffix(e.name) # <<".", "z", "i", "p">>

\* POST /upload_folder/, lines 223-240 and 263-276: the folder name, the
\* temporary directory, the saved archive and its extraction
Unzip(r) ==
    /\ req[r].pc = "parsed"
    /\ req[r].kind = "folder"
    /\ owner[req[r].proc] = 0
    /\ \E zn \in ZipNames, valid \in BOOLEAN :
        LET base == sanitize_filename(splitext(zn)[1])
            rec == [req[r] EXCEPT !.zipname = zn, !.zipvalid = valid]
        IN  IF ~IsReturn(base)
            THEN Continue(r, UploadFailed(rec, "sanitize"))
            ELSE IF valid
            THEN Continue(r, [rec EXCEPT !.pc = "iter", !.tmp = TRUE,
                                  !.folder = base.value \o <<"_">> \o UuidHex(r)])
            ELSE Continue(r, Ended([rec EXCEPT !.tmp = TRUE,
                                             !.raised = "BadZipFile"], 400))
    /\ UNCHANGED <<objects, catalog, arg, ret>>

\* lines 243-259: the traversal comes to the entry e
Visit(r, rec, e) ==
    IF Eligible(e)
    THEN Continue(r, BeginIngest([rec EXCEPT !.eligible = @ + 1], e.name))
    ELSE Continue(r, rec)

\* lines 243-261 and 274-276: the next entry of the traversal, or its end
NextEntry(r) ==
    /\ req[r].pc = "iter"
    /\ Holds(r)
    /\ \/ Continue(r, Ended(req[r], 200))
       \/ /\ req[r].seen < MaxEntries
          /\ \E e \in Entries(req[r].zipname) :
                Visit(r, [req[r] EXCEPT !.seen = @ + 1], e)
    /\ UNCHANGED <<objects, catalog, arg, ret>>

----------------------------------------------------------------------------
(* main.py: GET /download/{file_id}; db.py: get_file_minio_details.        *)

\* db.py lines 284-330: the row of file_id, None (here the empty set), or the
\* exception the database error is raised as
get_file_minio_details(rows, file_id, db) ==
    IF db = "connection" THEN Raised("DatabaseConnectionError")
    ELSE IF db = "operation" THEN Raised("psycopg2.Error")
    ELSE Returned({row \in rows : row.file_id = file_id})

\* minio_client.get_object: the object, or the S3 error code
GetObject(store, key, fault) ==
    IF fault THEN "Other"
    ELSE IF key \in DOMAIN store THEN "found"
    ELSE "NoSuchKey"

\* a handler that answers every S3Error with a 500
S3ErrorStatusAlways500(code) == 500

\* lines 379-395: the status an S3Error of get_object is answered with
S3ErrorStatus(code) == IF code = "NoSuchKey" THEN 404 ELSE 500

\* lines 396-409: the status a failed catalog lookup is answered with
DbErrorStatus(exception) == IF exception = "DatabaseConnectionError" THEN 503 ELSE 500

\* lines 327-409
Download(r) ==
    /\ req[r].pc = "idle"
    /\ \E file_id \in DownloadIds, p \in DOMAIN owner, db \in DbAnswers, fault \in BOOLEAN :
        LET rec == [IdleReq EXCEPT !.kind = "download", !.proc = p, !.fid = file_id]
            minio_details == get_file_minio_details(catalog, file_id, db)
        IN  /\ owner[p] = 0
            /\ IF ~IsReturn(minio_details)
               THEN req' = [req EXCEPT ![r] =
                        Ended([rec EXCEPT !.raised = minio_details.raised],
                              DbErrorStatus(minio_details.raised))]
               ELSE IF minio_details.value = {}
               THEN req' = [req EXCEPT ![r] = Ended(rec, 404)]
               ELSE LET row == CHOOSE x \in minio_details.value : TRUE
                        code == GetObject(objects, row.minio_object_path, fault)
                    IN  IF code = "found"
                        THEN req' = [req EXCEPT ![r] =
                                 Ended([rec EXCEPT !.touched = TRUE,
                                           !.body = objects[row.minio_object_path]], 200)]
                        ELSE req' = [req EXCEPT ![r] =
                                 Ended([rec EXCEPT !.touched = TRUE, !.s3err = fault,
                                                   !.raised = "S3Error"],
                                       S3ErrorStatus(code))]
    /\ UNCHANGED <<objects, catalog, owner, arg, ret>>

----------------------------------------------------------------------------
(* main.py: GET /search; db.py: search_files_in_db.                        *)

\* the keyword arguments of the call, main.py lines 311-320
SearchCallKeywords ==
    {"file_id", "research_project_id", "author", "file_type", "experiment_type",
     "tags_contain", "date_after", "date_before"}

\* the parameters of the function, db.py lines 175-184; all have a default
SearchParameters ==
    {"file_id", "project_id", "author", "file_type", "experiment_type",
     "tags_contain", "date_before", "date_after"}

\* column ILIKE '%pattern%': the pattern occurs in the text, whatever the case
ILike(text, pattern) ==
    \E i \in 0..(Len(text) - Len(pattern)) :
        Upper(SubSeq(text, i + 1, i + Len(pattern))) = Upper(pattern)

\* db.py lines 219-252: the WHERE clause; a filter left out adds no condition
Matches(row, q) ==
    /\ q.file_id # NoFileId => row.file_id = q.file_id
    /\ q.research_project_id # <<>> => ILike(row.project_id, q.research_project_id)
    /\ q.file_type # <<>> => ILike(row.file_type, q.file_type)

\* ORDER BY upload_timestamp DESC
RECURSIVE NewestFirst(_)
NewestFirst(rows) ==
    IF rows = {} THEN <<>>
    ELSE LET top == CHOOSE x \in rows :
                        \A y \in rows : y.upload_timestamp <= x.upload_timestamp
         IN  <<top>> \o NewestFirst(rows \ {top})

\* LIMIT 100
SearchLimit == 100
Limit(s) == SubSeq(s, 1, IF Len(s) < SearchLimit THEN Len(s) ELSE SearchLimit)

\* db.py lines 204-281: the records the query selects, or the database error
\* the function raises again
search_files_in_db(rows, q, db) ==
    IF db = "connection" THEN Raised("DatabaseConnectionError")
    ELSE IF db = "operation" THEN Raised("psycopg2.Error")
    ELSE Returned(Limit(NewestFirst({row \in rows : Matches(row, q)})))

\* lines 279-324: the call of search_files_in_db; every exception, that of a
\* call that does not bind included, is answered with a 500
Search(r) ==
    /\ req[r].pc = "idle"
    /\ \E q \in SearchQueries, p \in DOMAIN owner :
        LET rec == [IdleReq EXCEPT !.kind = "search", !.proc = p, !.query = q]
        IN  /\ owner[p] = 0
            /\ IF CallBinds(SearchCallKeywords, SearchParameters, {})
               THEN \E db \in DbAnswers :
                    LET results == search_files_in_db(catalog, q, db)
                    IN  IF IsReturn(results)
                        THEN req' = [req EXCEPT ![r] =
                                 Ended([rec EXCEPT !.hits = results.value], 200)]
                        ELSE req' = [req EXCEPT ![r] =
                                 Ended([rec EXCEPT !.raised = results.raised], 500)]
               ELSE req' = [req EXCEPT ![r] =
                        Ended([rec EXCEPT !.raised = "TypeError"], 500)]
    /\ UNCHANGED <<objects, catalog, owner, arg, ret>>

----------------------------------------------------------------------------
(* The server: one process, one event loop, a bucket and a catalog that    *)
(* may hold an object and a row from before.                               *)

Init ==
    /\ objects \in {NoObjects, (KeyA :> External)}
    /\ catalog = {PreRow}
    /\ req = [r \in Reqs |-> IdleReq]
    /\ owner = [p \in {1} |-> 0]
    /\ arg = <<>>
    /\ ret = [fn |-> "", result |-> NoRet]

Next ==
    \E r \in Reqs :
        \/ UploadFileMeta(r)
        \/ UploadFolderMeta(r)
        \/ UploadFileIngest(r)
        \/ Unzip(r)
        \/ NextEntry(r)
        \/ Probe(r)
        \/ Put(r)
        \/ Store(r)
        \/ Download(r)
        \/ Search(r)

Spec == Init /\ [][Next]_vars

----------------------------------------------------------------------------
(* The utility functions of utils.py, applied to every short file name.    *)

UtilChars == {"a", "A", "-", "_", ".", "!", "/"}

InitUtil ==
    /\ arg \in StringsUpTo(UtilChars, MaxNameLen)
    /\ ret = [fn |-> "", result |-> NoRet]
    /\ objects = NoObjects
    /\ catalog = {}
    /\ req = [r \in Reqs |-> IdleReq]
    /\ owner = [p \in {1} |-> 0]

CallSanitizeFilename ==
    /\ ret.fn = ""
    /\ ret' = [fn |-> "sanitize_filename", result |-> sanitize_filename(arg)]
    /\ UNCHANGED <<objects, catalog, req, owner, arg>>

CallGetFileExtension ==
    /\ ret.fn = ""
    /\ ret' = [fn |-> "get_file_extension", result |-> Returned(get_file_extension(arg))]
    /\ UNCHANGED <<objects, catalog, req, owner, arg>>

NextUtil == CallSanitizeFilename \/ CallGetFileExtension

SpecUtil == InitUtil /\ [][NextUtil]_vars

----------------------------------------------------------------------------
(* Two server processes (workers or replicas) in front of the same bucket  *)
(* and catalog, each with its own event loop, serving file uploads.        *)

InitWorkers ==
    /\ objects \in {NoObjects, (KeyA :> External)}
    /\ catalog = {PreRow}
    /\ req = [r \in Reqs |-> IdleReq]
    /\ owner = [p \in {1, 2} |-> 0]
    /\ arg = <<>>
    /\ ret = [fn |-> "", result |-> NoRet]

NextWorkers ==
    \E r \in Reqs :
        \/ UploadFileMeta(r)
        \/ UploadFileIngest(r)
        \/ Probe(r)
        \/ Put(r)
        \/ Store(r)

SpecWorkers == InitWorkers /\ [][NextWorkers]_vars

----------------------------------------------------------------------------
(* The ingestion pipeline of one process under fairness: the requests are  *)
(* file uploads whose metadata document has been read.                     *)

InitIngest ==
    /\ objects \in {NoObjects, (KeyA :> External)}
    /\ catalog = {PreRow}
    /\ req = [r \in Reqs |->
                MetadataRead("file", [kind |-> "mapping", research_project_id |-> <<>>], 1)]
    /\ owner = [p \in {1} |-> 0]
    /\ arg = <<>>
    /\ ret = [fn |-> "", result |-> NoRet]

NextIngest ==
    \E r \in Reqs :
        \/ UploadFileIngest(r)
        \/ Probe(r)
        \/ Put(r)
        \/ Store(r)

\* a handler that is inside the key-resolution loop goes on running: the loop
\* has no await that is ever suspended, and a call of the store returns
SpecIngestFair ==
    InitIngest /\ [][NextIngest]_vars /\ \A r \in Reqs : WF_vars(Probe(r))

----------------------------------------------------------------------------
(* Properties.                                                             *)

Uploads == {r \in Reqs : req[r].kind \in {"file", "folder"}}

\* the id of the ingest request r is in, or was in last
CurrentIngest(r) == IngestId(r, req[r].n)

\* the catalog rows of an ingest
RowsOf(id) == {row \in catalog : row.file_id = id}

\* the keys at which the bucket holds an object written by an ingest
KeysOf(id) == {k \in DOMAIN objects : objects[k] = id}

\* the outcome the current ingest of r returned, if it returned one
Outcomes(r) ==
    {req[r].results[i] : i \in {j \in DOMAIN req[r].results :
                                  req[r].results[j].file_id = CurrentIngest(r)}}

\* the current ingest of r made its catalog call: the call raised, or returned
PastCatalogCall(r) == req[r].raised = "TypeError" \/ Outcomes(r) # {}

\* request r has come to the catalog call of its current ingest, or is past it
AtOrPastCatalogCall(r) == req[r].pc = "store" \/ PastCatalogCall(r)

\* C1: an ingest comes to its catalog call only after its put at the final key
\* was accepted: whenever an ingest is at or past the catalog call, the bucket
\* holds at its final key the object this ingest wrote; and every catalog row
\* written by an ingest references a key that holds the object of that ingest.
C1_ObjectBeforeCatalog ==
    /\ \A r \in Uploads :
          AtOrPastCatalogCall(r) =>
              /\ req[r].wrote \in DOMAIN objects
              /\ objects[req[r].wrote] = CurrentIngest(r)
    /\ \A row \in catalog :
          row.file_id[1] # 0 =>
              /\ row.minio_object_path \in DOMAIN objects
              /\ objects[row.minio_object_path] = row.file_id

\* an ingest has made its catalog call, and its object is in the bucket
C1_Witness ==
    \E r \in Uploads :
        /\ req[r].raised = "TypeError"
        /\ req[r].wrote \in DOMAIN objects
        /\ objects[req[r].wrote] = CurrentIngest(r)

\* C2: an existence probe that fails with an S3 error other than NoSuchKey, or
\* a put that fails, ends the ingest with the error raised to the endpoint (a
\* 500): no catalog row is written for the file, and after a probe error no
\* object is written for it either.
C2_StoreErrorAborts ==
    \A r \in Uploads :
        /\ req[r].s3err =>
              /\ req[r].pc = "done" /\ req[r].resp = 500 /\ req[r].raised = "stat"
              /\ req[r].wrote = <<>>
              /\ KeysOf(CurrentIngest(r)) = {}
              /\ RowsOf(CurrentIngest(r)) = {}
        /\ req[r].raised = "put" =>
              /\ req[r].pc = "done" /\ req[r].resp = 500
              /\ req[r].results = <<>>
              /\ RowsOf(CurrentIngest(r)) = {}

\* one ingest was ended by a probe error and another by a failed put
C2_Witness ==
    \E r1, r2 \in Uploads :
        /\ req[r1].s3err /\ req[r1].raised = "stat" /\ req[r1].touched
        /\ req[r2].raised = "put" /\ req[r2].resp = 500

\* C3: an ingest that wrote its object and gained no catalog row does not
\* raise: it has returned an outcome with status error that carries the file id
\* and the final key, and the object is still in the bucket at that key.
C3_CatalogFailureIsOutcome ==
    \A r \in Uploads :
        (PastCatalogCall(r) /\ RowsOf(CurrentIngest(r)) = {}) =>
            /\ req[r].raised = ""
            /\ \E o \in Outcomes(r) :
                  /\ o.status = "error"
                  /\ o.final_object_name = req[r].wrote
            /\ req[r].wrote \in DOMAIN objects

\* the key prefix of the current ingest of a request: the sanitized project id
\* and the folder name, each followed by a slash
KeyPrefix(rec) ==
    sanitize_project_id(rec.meta.research_project_id)
    \o (IF rec.folder = <<>> THEN <<>> ELSE rec.folder \o <<"/">>)

\* prefix+base+ext for counter 0, prefix+base+"(n)"+ext for counter n
CandidateKey(rec, m) ==
    LET sp == splitext(sanitize_filename(rec.name).value)
    IN  IF m = 0 THEN KeyPrefix(rec) \o sp[1] \o sp[2]
        ELSE KeyPrefix(rec) \o sp[1] \o <<"(">> \o IntToStr(m) \o <<")">> \o sp[2]

\* C5: one process serves the requests, so the bucket does not change during a
\* key-resolution loop. When the loop is left, the resolved key is the desired
\* key prefix+base+ext if that is free, and else prefix+base+"(n)"+ext for the
\* smallest n >= 1 whose key is free: the desired key and the keys of the
\* counters 1..n-1 hold objects, the resolved key holds none.
C5_SmallestFreeKey ==
    \A r \in Uploads :
        req[r].pc = "put" =>
            /\ req[r].final = CandidateKey(req[r], req[r].counter)
            /\ req[r].final \notin DOMAIN objects
            /\ \A m \in 0..(req[r].counter - 1) :
                  CandidateKey(req[r], m) \in DOMAIN objects

\* a.txt and a(1).txt are taken, the loop resolved to a(2).txt
C5_Witness ==
    \E r \in Uploads :
        /\ req[r].pc = "put"
        /\ req[r].counter = 2
        /\ req[r].final = <<"a", "(", "2", ")">>

\* C6: an ingest whose put was accepted and whose catalog write was not refused
\* has returned an outcome with status success, and the catalog holds exactly
\* one row for it: its file id, the original name, the file type of that name,
\* the project id of the metadata and the resolved key.
C6_AcceptedIngestSucceeds ==
    \A r \in Uploads :
        (PastCatalogCall(r) /\ \A o \in Outcomes(r) : o.status # "error") =>
            /\ \E o \in Outcomes(r) : o.status = "success"
            /\ Cardinality(RowsOf(CurrentIngest(r))) = 1
            /\ \A row \in RowsOf(CurrentIngest(r)) :
                  /\ row.minio_object_path = req[r].wrote
                  /\ row.file_type = get_file_extension(row.file_name)

\* C7: a folder upload with a valid archive and valid metadata, none of whose
\* existence probes met a store error, is answered with a 200 and one outcome
\* per eligible file, each eligible file having been passed to the ingest
\* once, whether or not the put or the catalog write of a file failed.
C7_FolderAlwaysAnswers200 ==
    \A r \in Uploads :
        (/\ req[r].kind = "folder" /\ req[r].pc = "done"
         /\ req[r].meta.kind = "mapping" /\ req[r].zipvalid /\ ~req[r].s3err) =>
            /\ req[r].resp = 200
            /\ req[r].n = req[r].eligible
            /\ Len(req[r].results) = req[r].eligible

\* the input of request r is rejected: its metadata document is no mapping, or
\* its archive is no valid archive
BadInput(r) == req[r].meta.kind # "mapping" \/ ~req[r].zipvalid

DownloadAnswered(r) ==
    /\ req[r].pc = "idle"
    /\ req'[r].kind = "download"
    /\ req'[r].raised \notin {"DatabaseConnectionError", "psycopg2.Error"}
    /\ ~req'[r].s3err

\* C9: a download whose backends answer is a 404 when the catalog has no row
\* for the file id, a 404 when it has a row and the bucket holds no object at
\* the row's key, and else a 200 that streams the object at that key; the
\* catalog and the bucket are unchanged.
C9_DownloadStatus ==
    [][\A r \in Reqs :
          DownloadAnswered(r) =>
              /\ RowsOf(req'[r].fid) = {} => req'[r].resp = 404
              /\ \A row \in RowsOf(req'[r].fid) :
                    IF row.minio_object_path \in DOMAIN objects
                    THEN /\ req'[r].resp = 200
                         /\ req'[r].body = objects[row.minio_object_path]
                    ELSE req'[r].resp = 404
              /\ catalog' = catalog
              /\ objects' = objects]_vars

\* a download of a file that has a row and no object was answered with a 404
C9_Witness ==
    \E r \in Reqs :
        /\ req[r].kind = "download" /\ req[r].resp = 404
        /\ req[r].raised = "S3Error" /\ ~req[r].s3err
        /\ \E row \in RowsOf(req[r].fid) : row.minio_object_path \notin DOMAIN objects

\* C10: sanitize_filename returns for every string, and what it returns is
\* non-empty and made of alphanumeric characters, '-', '_' and at most one '.'.
C10_SanitizeTotal ==
    ret.fn = "sanitize_filename" =>
        /\ IsReturn(ret.result)
        /\ ret.result.value # <<>>
        /\ \A i \in DOMAIN ret.result.value :
              IsAlnum(ret.result.value[i]) \/ ret.result.value[i] \in {"-", "_", "."}
        /\ Cardinality({i \in DOMAIN ret.result.value : ret.result.value[i] = "."}) <= 1

\* the text of a name after its last '.'
AfterLastDot(s) == SubSeq(s, RFind(s, ".") + 1, Len(s))

\* C11: get_file_extension never returns the empty string: it returns the
\* sentinel UNKNOWN, or the non-empty uppercased text after the last '.' of the
\* name; this for every name, those ending in '.' or starting with '.' included.
C11_ExtensionNeverEmpty ==
    ret.fn = "get_file_extension" =>
        /\ IsReturn(ret.result)
        /\ ret.result.value # <<>>
        /\ \/ ret.result.value = <<"U", "N", "K", "N", "O", "W", "N">>
           \/ /\ RFind(arg, ".") > 0
              /\ ret.result.value = Upper(AfterLastDot(arg))

\* the database failed under the search of request r
SearchDbFailed(rec) == rec.raised \in {"DatabaseConnectionError", "psycopg2.Error"}

\* hits is what a search with the filters q has to return from the rows: the
\* newest rows that satisfy every filter, newest first, at most SearchLimit
IsSearchAnswer(hits, rows, q) ==
    LET matching == {row \in rows : Matches(row, q)}
    IN  /\ Range(hits) \subseteq matching
        /\ Len(hits) = IF Cardinality(matching) < SearchLimit
                       THEN Cardinality(matching) ELSE SearchLimit
        /\ \A i, j \in DOMAIN hits :
              i < j => /\ hits[i] # hits[j]
                       /\ hits[i].upload_timestamp >= hits[j].upload_timestamp
        /\ \A row \in matching \ Range(hits) : \A i \in DOMAIN hits :
              hits[i].upload_timestamp >= row.upload_timestamp

\* C12: a GET /search, whatever filters it carries, is answered without a
\* server error while the database works: the answer is a 200 with the rows
\* that satisfy all given filters, newest first, at most 100; the catalog is
\* left as it was.
C12_SearchAnswers ==
    [][\A r \in Reqs :
          (req[r].pc = "idle" /\ req'[r].kind = "search" /\ ~SearchDbFailed(req'[r])) =>
              /\ req'[r].resp = 200
              /\ IsSearchAnswer(req'[r].hits, catalog, req'[r].query)
              /\ catalog' = catalog]_vars

\* the folder uploads that have answered
FoldersDone == {r \in Reqs : req[r].kind = "folder" /\ req[r].pc = "done"}

\* C13: the temporary directory of a folder upload exists only while the
\* request is being handled: once the request has answered, whatever the exit
\* path (all files ingested, invalid archive, exception under an ingest), the
\* directory is gone.
C13_TempDirRemoved ==
    \A r \in Reqs :
        /\ req[r].pc = "done" => ~req[r].tmp
        /\ req[r].tmp => req[r].kind = "folder" /\ Holds(r)

\* one folder upload was refused for its archive after the directory was made,
\* another ended with an exception under the ingest of an extracted file
C13_Witness ==
    \E r1, r2 \in FoldersDone :
        /\ req[r1].raised = "BadZipFile" /\ req[r1].resp = 400
        /\ req[r2].raised \in {"stat", "put", "TypeError"} /\ req[r2].resp = 500
        /\ req[r2].n >= 1
        /\ ~req[r1].tmp /\ ~req[r2].tmp

\* where the current ingest of an upload stands: a state of the ingest's
\* machine, "Raised" for an ingest that left the catalog call by an exception,
\* "none" when the request has no ingest
IngestPhase(r) ==
    IF r \notin Uploads \/ req[r].n = 0 THEN "none"
    ELSE IF req[r].pc = "probe" THEN "Start"
    ELSE IF req[r].pc = "put" THEN "KeyResolved"
    ELSE IF req[r].pc = "store" THEN "ObjectWritten"
    ELSE IF req[r].raised \in {"stat", "put"} THEN "Aborted"
    ELSE IF req[r].raised = "TypeError" THEN "Raised"
    ELSE IF \E o \in Outcomes(r) : o.status = "success" THEN "CatalogWritten"
    ELSE IF \E o \in Outcomes(r) : o.status = "error" THEN "CatalogFailed"
    ELSE "none"

\* the transitions of the ingest's machine; an ingest is aborted by a failed
\* probe (from Start) or by a failed put (after the key was resolved)
IngestTransitions ==
    {<<"Start", "KeyResolved">>, <<"KeyResolved", "ObjectWritten">>,
     <<"ObjectWritten", "CatalogWritten">>, <<"ObjectWritten", "CatalogFailed">>,
     <<"Start", "Aborted">>, <<"KeyResolved", "Aborted">>}

\* C14: an ingest moves only along Start -> KeyResolved -> ObjectWritten ->
\* CatalogWritten or CatalogFailed, or to Aborted when the store fails before
\* the object is written; it begins in Start, and once the object is written
\* it ends by returning an outcome, never by raising.
C14_IngestStateMachine ==
    [][\A r \in Reqs :
          /\ (req'[r].n = req[r].n /\ IngestPhase(r)' # IngestPhase(r)) =>
                <<IngestPhase(r), IngestPhase(r)'>> \in IngestTransitions
          /\ req'[r].n # req[r].n => IngestPhase(r)' = "Start"]_vars

\* the put of request r is accepted in this step
PutAccepted(r) == req[r].pc = "put" /\ req'[r].pc = "store"

\* C15: when two ingests that run at the same time put the same key, the
\* bucket keeps the payload of the later put and nothing notices: every
\* accepted put leaves the writer's payload at its key, whatever the key held,
\* adds no other key, goes on to the catalog call, and changes nothing in any
\* other request; of two ingests that wrote the same key the bucket holds the
\* payload of exactly one.
C15_LaterWriterWins ==
    /\ [][\A r \in Reqs :
            PutAccepted(r) =>
                /\ objects'[req[r].final] = CurrentIngest(r)
                /\ DOMAIN objects' = DOMAIN objects \cup {req[r].final}
                /\ \A k \in DOMAIN objects \ {req[r].final} : objects'[k] = objects[k]
                /\ \A q \in Reqs \ {r} : req'[q] = req[q]]_vars
    /\ [](\A r1, r2 \in Reqs :
            (r1 # r2 /\ req[r1].wrote # <<>> /\ req[r1].wrote = req[r2].wrote) =>
                /\ objects[req[r1].wrote] \in {CurrentIngest(r1), CurrentIngest(r2)}
                /\ AtOrPastCatalogCall(r1) /\ AtOrPastCatalogCall(r2))

\* both ingests found their common first candidate absent (no counter was
\* taken), both puts were accepted, and the bucket holds the payload of one
\* ingest only: that of the other is lost
C15_Witness ==
    \E r1, r2 \in Reqs :
        /\ r1 # r2
        /\ req[r1].pc = "store" /\ req[r2].pc = "store"
        /\ req[r1].counter = 0 /\ req[r2].counter = 0
        /\ req[r1].final = req[r2].final
        /\ req[r1].wrote = req[r1].final /\ req[r2].wrote = req[r2].final
        /\ objects[req[r2].final] = CurrentIngest(r2)
        /\ KeysOf(CurrentIngest(r1)) = {}

\* the candidate keys the key resolution of request r has probed and found taken
CandidatesMet(r) == {CandidateKey(req[r], m) : m \in 0..(req[r].counter - 1)}

\* C16: a turn of the key-resolution loop either finds the probed key taken
\* and goes on with the next counter, or leaves the loop because the key is
\* absent, or leaves it raising the store's other error; nothing else ends the
\* loop. The counter is the number of existing candidate keys met so far, so
\* with a finite bucket the loop has probed at most one key more than that
\* when it ends; and every loop ends: from some moment on no request is
\* inside a key-resolution loop.
C16_KeyResolutionTerminates ==
    /\ [][\A r \in Reqs :
            (req[r].pc = "probe" /\ req'[r] # req[r]) =>
                \/ /\ req'[r].pc = "probe"
                   /\ req[r].final \in DOMAIN objects
                   /\ req'[r].counter = req[r].counter + 1
                   /\ req'[r].final = CandidateKey(req[r], req[r].counter + 1)
                \/ /\ req'[r].pc = "put"
                   /\ req[r].final \notin DOMAIN objects
                   /\ req'[r].final = req[r].final
                   /\ req'[r].counter = req[r].counter
                \/ /\ req'[r].pc = "done"
                   /\ req'[r].raised = "stat" /\ req'[r].s3err]_vars
    /\ [](\A r \in Reqs :
            req[r].pc \in {"probe", "put"} =>
                /\ req[r].final = CandidateKey(req[r], req[r].counter)
                /\ CandidatesMet(r) \subseteq DOMAIN objects
                /\ Cardinality(CandidatesMet(r)) = req[r].counter
                /\ req[r].counter <= Cardinality(DOMAIN objects))
    /\ <>[](\A r \in Reqs : req[r].pc # "probe")

\* a key resolution met two taken candidates, one of them written by another
\* ingest, and left the loop at the third
C16_Witness ==
    \E r \in Reqs :
        /\ req[r].pc = "put"
        /\ req[r].counter = 2
        /\ CandidatesMet(r) \subseteq DOMAIN objects
        /\ \E q \in Reqs \ {r} : req[q].wrote \in CandidatesMet(r)
        /\ req[r].final \notin DOMAIN objects

\* request r is in an ingest, between its first probe and the end of the
\* catalog call
InIngest(r) == req[r].pc \in {"probe", "put", "store"}

\* C17: in one server process an ingest is not suspended between its first
\* probe and the end of its catalog call: the event loop stays with its
\* handler, no other request of the process takes a step meanwhile, and so no
\* put of an ingest goes to a key that holds an object.
C17_NoOverwriteInOneProcess ==
    /\ [][\A r \in Reqs :
            /\ PutAccepted(r) => req[r].final \notin DOMAIN objects
            /\ InIngest(r) =>
                  \A q \in Reqs \ {r} :
                      req[q].proc = req[r].proc => req'[q] = req[q]]_vars
    /\ [](\A r \in Reqs : InIngest(r) => owner[req[r].proc] = r)

\* two ingests of the same process wanted the same key: the first wrote it, the
\* second found it taken and wrote the next candidate; both objects are there
C17_Witness ==
    \E r1, r2 \in Uploads :
        /\ r1 # r2 /\ req[r1].proc = req[r2].proc
        /\ req[r2].pc = "store" /\ req[r2].counter >= 1
        /\ req[r1].wrote = CandidateKey(req[r2], 0)
        /\ req[r2].wrote = CandidateKey(req[r2], req[r2].counter)
        /\ objects[req[r1].wrote] = CurrentIngest(r1)
        /\ objects[req[r2].wrote] = CurrentIngest(r2)

====
